---- MODULE Spec2Model ----
(***************************************************************************)
(* A model of hammer/hammer.go, the load-test engine of serverless-log:    *)
(* the Throttle, the roundRobinFetcher, the leaf generator, the            *)
(* LeafConsumer, the worker pools as driven by Hammer.Run and hostUI, and  *)
(* the consistency poll of Hammer.Run.                                     *)
(*                                                                         *)
(* Goroutines are processes with a program counter; a step is one access   *)
(* to shared memory or one channel operation.  Time is abstracted: a       *)
(* ticker or a timeout may fire whenever its goroutine waits on it.        *)
(* Reads and writes of the word-sized t.opsPerSecond are unsynchronised in *)
(* the source; a racing read returns the value before or after the racing  *)
(* write, which is the interleaving of the read and write steps here.      *)
(***************************************************************************)
EXTENDS Integers, Sequences, FiniteSets, TLC

\* ------------------------------------------------------------------ bounds

\* Largest rate a throttle is constructed with (--max_read_ops, --max_write_ops).
MaxInitRate == 2
\* Cap on opsPerSecond in the specifications that run the refill loop.
MaxRunRate == 3
\* Cap on opsPerSecond in the specification of the UI's rate keys alone.
MaxRate == 31
\* Largest number of --log_url mirrors, and so of sub-fetchers.
MaxFetchers == 3
\* Number of goroutines calling roundRobinFetcher.Fetch concurrently.
NumCallers == 2
\* Number of Fetch calls made in all.
MaxCalls == 4
\* Largest value of a --num_readers_random, --num_readers_full, --num_writers flag.
MaxInitWorkers == 2
\* Number of Grow calls made on one pool in all.
MaxGrows == 3
\* Number of Shrink calls made on one pool in all.
MaxShrinks == 3
\* Capacity of the LRU cache of the LeafConsumer (1024 in NewLeafConsumer).
CacheSize == 2
\* Capacity of leafchan (256 in NewLeafConsumer).
LeafChanCap == 2
\* Largest leaf index submitted to the LeafConsumer.
MaxIndex == 2
\* Number of leaves submitted to the LeafConsumer in all.
MaxLeaves == 4
\* Number of ticks of the consistency poll.
MaxTicks == 3
\* Largest size of the log the tracker reports.
MaxSize == 2
\* Capacity of errChan (20 in NewHammer).
ErrChanCap == 2
\* Largest --leaf_min_size.
MaxLeafMinSize == 2
\* Number of writers (--num_writers) in the specification of concurrent writers.
NumWriters == 2
\* Number of calls of the leaf generator in all.
MaxGenCalls == 4
\* In the specification of cancellation: the cap on opsPerSecond, and the
\* numbers of poll ticks, of leaves submitted and of errors queued at once.
MaxCancelRate == 1
MaxCancelTicks == 1
MaxCancelLeaves == 1
MaxCancelErrors == 1
\* Number of goroutines calling Increase() and Decrease() concurrently.
NumAdjusters == 2
\* Number of Increase() and Decrease() calls made concurrently in all.
MaxAdjustCalls == 3
\* Largest number of --log_url flags given to main.
MaxLogURLs == 2

\* ------------------------------------------------------------------ state

\* The two throttles NewHammer builds.
Throttles == {"read", "write"}

VARIABLES
    ctxDone,        \* the ctx given to Hammer.Run has been cancelled
    lastKey,        \* the rune of the last key event hostUI handled ("" at start)
    \* Throttle, one per element of Throttles
    opsPerSecond,   \* Throttle.opsPerSecond
    tokenChan,      \* number of tokens buffered in Throttle.tokenChan
    chanCap,        \* cap(Throttle.tokenChan), fixed by NewThrottle
    oversupply,     \* Throttle.oversupply
    tpc,            \* position of Throttle.Run: select | loop | push | stopped
    tokenCount,     \* local tokenCount of Throttle.Run
    loopI,          \* local i of Throttle.Run: tokens pushed in this cycle
    cycleRate,      \* history: opsPerSecond when the current cycle started
    cycleHeld,      \* history: tokens held in tokenChan when the cycle started
    taken,          \* history: tokens received by workers since the cycle started
    \* roundRobinFetcher
    idx,            \* rr.idx
    numFetchers,    \* len(rr.f): one sub-fetcher, 0..len-1, per --log_url
    mutex,          \* holder of rr's sync.Mutex, or 0 when it is free
    fpc,            \* per caller of Fetch: idle | lock | read | write | unlock | call
    fLocal,         \* per caller: the local f of next(), -1 before it is read
    selections,     \* history: the sub-fetchers selected, in the order of the lock
    \* worker pools of the Hammer
    pools,          \* per pool: cancelFns, the running workers, and call counts
    numWorkers,     \* per pool: --num_readers_random, --num_readers_full, --num_writers
    hpc,            \* position of Hammer.Run: the pool being grown, or "started"
    runI,           \* local i of the current start-up loop of Hammer.Run
    \* LeafConsumer
    leafchan,       \* LeafConsumer.leafchan: the leaves submitted and not yet read
    lookup,         \* LeafConsumer.lookup: the LRU cache, least recently used first
    duplicateCount, \* LeafConsumer.duplicateCount
    lcpc,           \* position of LeafConsumer.Run: select | stopped
    processed,      \* history: the leaves LeafConsumer.Run has processed, in order
    \* the consistency poll and the error drain of Hammer.Run
    ppc,            \* position of the poll goroutine: select | stopped
    trackerSize,    \* h.tracker.LatestConsistent.Size
    lastErr,        \* history: the error of the last tracker.Update of the poll
    ticks,          \* history: number of ticks the poll has processed
    output,         \* history: the lines klog has written, in order
    exited,         \* klog.Fatalf has terminated the process
    errChan,        \* number of errors queued in h.errChan
    epc,            \* position of the error-draining goroutine: select | stopped
    \* the leaf generator of NewHammer and the writers calling it
    minLeafSize,    \* --leaf_min_size
    genN,           \* the n captured by the closure of newLeafGenerator
    nextLeaf,       \* the nextLeaf captured by the closure
    wpc,            \* per writer, its position in the closure:
                    \*   idle | dup | load | store | take | make
    wN,             \* per writer: the n it loaded for n++
    wR,             \* per writer: its local r
    seed,           \* history: the n the generator was made with
    returned,       \* history: the calls that returned, in order, each with its
                    \*   writer, the payload and whether it took the duplicate branch
    \* concurrent callers of Throttle.Increase and Throttle.Decrease
    apc,            \* per caller, its position: idle | incStore | decStore
    aThrottle,      \* per caller: the throttle t of the call in progress
    aTokenCount,    \* per caller: the local tokenCount of the call in progress
    rate0,          \* history: per throttle, opsPerSecond before the first call
    incCalls,       \* history: per throttle, the number of Increase() calls made
    decCalls,       \* history: per throttle, the number of Decrease() calls made
    \* main
    mpc,            \* position of main: verifier | urlcheck | urls | rr | tracker |
                    \*   update | addurl | newhammer | run | ui | exited | panicked
    config,         \* what main finds: the flags and the outcome of each start-up call
    fetchers,       \* len(fetchers): the --log_url flags main has gone through
    started         \* the goroutines NewHammer and Hammer.Run have started

throttleVars == <<opsPerSecond, tokenChan, chanCap, oversupply, tpc, tokenCount,
                  loopI, cycleRate, cycleHeld, taken>>

rrVars == <<idx, numFetchers, mutex, fpc, fLocal, selections>>

poolVars == <<pools, numWorkers, hpc, runI>>

consumerVars == <<leafchan, lookup, duplicateCount, lcpc, processed>>

pollVars == <<ppc, trackerSize, lastErr, ticks, output, exited>>

drainVars == <<errChan, epc>>

genVars == <<minLeafSize, genN, nextLeaf, wpc, wN, wR, seed, returned>>

adjustVars == <<apc, aThrottle, aTokenCount, rate0, incCalls, decCalls>>

mainVars == <<mpc, config, fetchers, started>>

vars == <<ctxDone, lastKey, throttleVars, rrVars, poolVars, consumerVars, pollVars,
          drainVars, genVars, adjustVars, mainVars>>

\* What a step of one part of the engine leaves alone: the rest of it.
othersOfThrottle ==
    <<ctxDone, lastKey, rrVars, poolVars, consumerVars, pollVars, drainVars, genVars,
      adjustVars, mainVars>>

othersOfRR ==
    <<ctxDone, lastKey, throttleVars, poolVars, consumerVars, pollVars, drainVars, genVars,
      adjustVars, mainVars>>

othersOfPools ==
    <<ctxDone, lastKey, throttleVars, rrVars, consumerVars, pollVars, drainVars, genVars,
      adjustVars, mainVars>>

othersOfConsumer ==
    <<ctxDone, lastKey, throttleVars, rrVars, poolVars, pollVars, drainVars, genVars,
      adjustVars, mainVars>>

othersOfPoll ==
    <<ctxDone, lastKey, throttleVars, rrVars, poolVars, consumerVars, genVars,
      adjustVars, mainVars>>

othersOfGen ==
    <<ctxDone, lastKey, throttleVars, rrVars, poolVars, consumerVars, pollVars, drainVars,
      adjustVars, mainVars>>

\* ---------------------------------------------------------------- Throttle

\* NewThrottle(r): the fields of a fresh throttle and of its not yet started Run.
NewThrottle(r) ==
    [opsPerSecond |-> r, chanCap |-> r, tokenChan |-> 0, oversupply |-> 0]

\* The step without its minimum of 1: int(float64(tokenCount) * 0.1).
Delta_NoMin(n) == n \div 10

\* The step of Increase and Decrease: int(max(float64(tokenCount) * 0.1, 1)).
\* float64(n) * 0.1 < 1 exactly when n < 10, and its integer part is n \div 10
\* for every n >= 10 in the range modelled.
Delta(n) == IF n < 10 THEN 1 ELSE n \div 10

\* The rate Increase() stores.
IncreaseRate(n) == n + Delta(n)

\* Decrease() with the guard tokenCount < 1 in place of tokenCount <= 1.
DecreaseRate_NoFloor(n) == IF n < 1 THEN n ELSE n - Delta(n)

\* The rate Decrease() leaves: unchanged at or below 1.
DecreaseRate(n) == IF n <= 1 THEN n ELSE n - Delta(n)

\* t.Increase(), called from the UI's event goroutine.
Increase(t) ==
    /\ opsPerSecond' = [opsPerSecond EXCEPT ![t] = IncreaseRate(opsPerSecond[t])]
    /\ UNCHANGED <<tokenChan, chanCap, oversupply, tpc, tokenCount, loopI,
                   cycleRate, cycleHeld, taken>>

\* t.Decrease(), called from the UI's event goroutine.
Decrease(t) ==
    /\ opsPerSecond' = [opsPerSecond EXCEPT ![t] = DecreaseRate(opsPerSecond[t])]
    /\ UNCHANGED <<tokenChan, chanCap, oversupply, tpc, tokenCount, loopI,
                   cycleRate, cycleHeld, taken>>

\* Throttle.Run, case <-ticker.C: a refill cycle starts; tokenCount and the
\* timeout are set up and the push loop is entered with i = 0.
RunTick(t) ==
    /\ tpc[t] = "select"
    /\ tokenCount' = [tokenCount EXCEPT ![t] = opsPerSecond[t]]
    /\ loopI' = [loopI EXCEPT ![t] = 0]
    /\ tpc' = [tpc EXCEPT ![t] = "loop"]
    /\ cycleRate' = [cycleRate EXCEPT ![t] = opsPerSecond[t]]
    /\ cycleHeld' = [cycleHeld EXCEPT ![t] = tokenChan[t]]
    /\ taken' = [taken EXCEPT ![t] = 0]
    /\ UNCHANGED <<opsPerSecond, tokenChan, chanCap, oversupply>>

\* The bound of a loop written i <= t.opsPerSecond.
LoopBound_Inclusive(t) == opsPerSecond[t] + 1

\* The value the loop condition i < t.opsPerSecond compares i with.
LoopBound(t) == opsPerSecond[t]

\* Throttle.Run, the loop condition: it reads t.opsPerSecond again on every
\* iteration.  When it fails the loop ends and oversupply is stored.
RunLoopCheck(t) ==
    /\ tpc[t] = "loop"
    /\ IF loopI[t] < LoopBound(t)
       THEN /\ tpc' = [tpc EXCEPT ![t] = "push"]
            /\ UNCHANGED oversupply
       ELSE /\ tpc' = [tpc EXCEPT ![t] = "select"]
            /\ oversupply' = [oversupply EXCEPT ![t] = tokenCount[t]]
    /\ UNCHANGED <<opsPerSecond, tokenChan, chanCap, tokenCount, loopI,
                   cycleRate, cycleHeld, taken>>

\* Throttle.Run, case t.tokenChan <- true, on a buffered channel with room.
RunPush(t) ==
    /\ tpc[t] = "push"
    /\ chanCap[t] > 0
    /\ tokenChan[t] < chanCap[t]
    /\ tokenChan' = [tokenChan EXCEPT ![t] = @ + 1]
    /\ tokenCount' = [tokenCount EXCEPT ![t] = @ - 1]
    /\ loopI' = [loopI EXCEPT ![t] = @ + 1]
    /\ tpc' = [tpc EXCEPT ![t] = "loop"]
    /\ UNCHANGED <<opsPerSecond, chanCap, oversupply, cycleRate, cycleHeld, taken>>

\* Throttle.Run, case t.tokenChan <- true, on the unbuffered channel of a
\* throttle constructed with rate 0: the send completes with a waiting worker's
\* receive, in one step.
RunHandOff(t) ==
    /\ tpc[t] = "push"
    /\ chanCap[t] = 0
    /\ tokenCount' = [tokenCount EXCEPT ![t] = @ - 1]
    /\ loopI' = [loopI EXCEPT ![t] = @ + 1]
    /\ taken' = [taken EXCEPT ![t] = @ + 1]
    /\ tpc' = [tpc EXCEPT ![t] = "loop"]
    /\ UNCHANGED <<opsPerSecond, tokenChan, chanCap, oversupply, cycleRate, cycleHeld>>

\* Throttle.Run, case <-timeout: break Loop, then oversupply is stored.
RunTimeout(t) ==
    /\ tpc[t] = "push"
    /\ tpc' = [tpc EXCEPT ![t] = "select"]
    /\ oversupply' = [oversupply EXCEPT ![t] = tokenCount[t]]
    /\ UNCHANGED <<opsPerSecond, tokenChan, chanCap, tokenCount, loopI,
                   cycleRate, cycleHeld, taken>>

\* Throttle.Run, case <-ctx.Done(): return.
RunStop(t) ==
    /\ tpc[t] = "select"
    /\ ctxDone
    /\ tpc' = [tpc EXCEPT ![t] = "stopped"]
    /\ UNCHANGED <<opsPerSecond, tokenChan, chanCap, oversupply, tokenCount, loopI,
                   cycleRate, cycleHeld, taken>>

\* A worker's receive from the throttle's token channel (<-throttle).
Acquire(t) ==
    /\ tokenChan[t] > 0
    /\ tokenChan' = [tokenChan EXCEPT ![t] = @ - 1]
    /\ taken' = [taken EXCEPT ![t] = @ + 1]
    /\ UNCHANGED <<opsPerSecond, chanCap, oversupply, tpc, tokenCount, loopI,
                   cycleRate, cycleHeld>>

\* The throttles as NewHammer constructs them from the two rate flags.
InitThrottles(rates) ==
    /\ opsPerSecond = [t \in Throttles |-> NewThrottle(rates[t]).opsPerSecond]
    /\ chanCap = [t \in Throttles |-> NewThrottle(rates[t]).chanCap]
    /\ tokenChan = [t \in Throttles |-> NewThrottle(rates[t]).tokenChan]
    /\ oversupply = [t \in Throttles |-> NewThrottle(rates[t]).oversupply]
    /\ tpc = [t \in Throttles |-> "select"]
    /\ tokenCount = [t \in Throttles |-> 0]
    /\ loopI = [t \in Throttles |-> 0]
    /\ cycleRate = [t \in Throttles |-> rates[t]]
    /\ cycleHeld = [t \in Throttles |-> 0]
    /\ taken = [t \in Throttles |-> 0]

\* -------------------------- Increase and Decrease called concurrently

\* The goroutines that call Increase() and Decrease() of one throttle at once.
Adjusters == 1..NumAdjusters

\* What a step of such a call leaves alone besides the throttle's other fields.
othersOfAdjust ==
    <<ctxDone, lastKey, rrVars, poolVars, consumerVars, pollVars, drainVars, genVars,
      mainVars>>

\* No call of Increase() or Decrease() is in progress or has been made.
InitAdjust ==
    /\ apc = [c \in Adjusters |-> "idle"]
    /\ aThrottle = [c \in Adjusters |-> "read"]
    /\ aTokenCount = [c \in Adjusters |-> 0]
    /\ rate0 = opsPerSecond
    /\ incCalls = [t \in Throttles |-> 0]
    /\ decCalls = [t \in Throttles |-> 0]

\* The calls of Increase() and Decrease() the callers have made on all throttles.
AdjustCalls ==
    LET Sum(f) == f["read"] + f["write"] IN Sum(incCalls) + Sum(decCalls)

\* t.Increase(), its first statement: tokenCount := t.opsPerSecond.
IncreaseLoad(c, t) ==
    /\ apc[c] = "idle"
    /\ AdjustCalls < MaxAdjustCalls
    /\ aTokenCount' = [aTokenCount EXCEPT ![c] = opsPerSecond[t]]
    /\ aThrottle' = [aThrottle EXCEPT ![c] = t]
    /\ apc' = [apc EXCEPT ![c] = "incStore"]
    /\ incCalls' = [incCalls EXCEPT ![t] = @ + 1]
    /\ UNCHANGED <<throttleVars, rate0, decCalls>>

\* t.Increase(), its last statement: t.opsPerSecond = tokenCount + int(delta).
IncreaseStore(c) ==
    /\ apc[c] = "incStore"
    /\ opsPerSecond' =
          [opsPerSecond EXCEPT ![aThrottle[c]] = IncreaseRate(aTokenCount[c])]
    /\ apc' = [apc EXCEPT ![c] = "idle"]
    /\ UNCHANGED <<tokenChan, chanCap, oversupply, tpc, tokenCount, loopI,
                   cycleRate, cycleHeld, taken>>
    /\ UNCHANGED <<aThrottle, aTokenCount, rate0, incCalls, decCalls>>

\* t.Decrease(), tokenCount := t.opsPerSecond and the early return at
\* tokenCount <= 1.
DecreaseLoad(c, t) ==
    /\ apc[c] = "idle"
    /\ AdjustCalls < MaxAdjustCalls
    /\ aTokenCount' = [aTokenCount EXCEPT ![c] = opsPerSecond[t]]
    /\ aThrottle' = [aThrottle EXCEPT ![c] = t]
    /\ apc' = [apc EXCEPT ![c] = IF opsPerSecond[t] <= 1 THEN "idle" ELSE "decStore"]
    /\ decCalls' = [decCalls EXCEPT ![t] = @ + 1]
    /\ UNCHANGED <<throttleVars, rate0, incCalls>>

\* t.Decrease(), its last statement: t.opsPerSecond = tokenCount - int(delta).
DecreaseStore(c) ==
    /\ apc[c] = "decStore"
    /\ opsPerSecond' =
          [opsPerSecond EXCEPT ![aThrottle[c]] = DecreaseRate(aTokenCount[c])]
    /\ apc' = [apc EXCEPT ![c] = "idle"]
    /\ UNCHANGED <<tokenChan, chanCap, oversupply, tpc, tokenCount, loopI,
                   cycleRate, cycleHeld, taken>>
    /\ UNCHANGED <<aThrottle, aTokenCount, rate0, incCalls, decCalls>>

\* ------------------------------------------------------- roundRobinFetcher

\* The goroutines that call Fetch: the readers and the log state tracker.
Callers == 1..NumCallers

\* roundRobinFetcher{f: fetchers} in main, with n sub-fetchers; no call yet.
InitRR(n) ==
    /\ idx = 0
    /\ numFetchers = n
    /\ mutex = 0
    /\ fpc = [c \in Callers |-> "idle"]
    /\ fLocal = [c \in Callers |-> -1]
    /\ selections = <<>>

\* Fetch is entered and calls next().
FetchCall(c) ==
    /\ fpc[c] = "idle"
    /\ Len(selections) + Cardinality({d \in Callers : fpc[d] \in {"lock", "read"}})
          < MaxCalls
    /\ fpc' = [fpc EXCEPT ![c] = "lock"]
    /\ UNCHANGED <<idx, numFetchers, mutex, fLocal, selections>>

\* rr.Lock() without mutual exclusion: it returns whoever holds the mutex.
NextLock_NoMutex(c) ==
    /\ fpc[c] = "lock"
    /\ mutex' = c
    /\ fpc' = [fpc EXCEPT ![c] = "read"]
    /\ UNCHANGED <<idx, numFetchers, fLocal, selections>>

\* next(): rr.Lock() returns once the mutex is free.
NextLock(c) ==
    /\ fpc[c] = "lock"
    /\ mutex = 0
    /\ mutex' = c
    /\ fpc' = [fpc EXCEPT ![c] = "read"]
    /\ UNCHANGED <<idx, numFetchers, fLocal, selections>>

\* next(): f := rr.f[rr.idx].
NextRead(c) ==
    /\ fpc[c] = "read"
    /\ fLocal' = [fLocal EXCEPT ![c] = idx]
    /\ selections' = Append(selections, idx)
    /\ fpc' = [fpc EXCEPT ![c] = "write"]
    /\ UNCHANGED <<idx, numFetchers, mutex>>

\* next(): rr.idx = (rr.idx + 1) % len(rr.f).
NextWrite(c) ==
    /\ fpc[c] = "write"
    /\ idx' = (idx + 1) % numFetchers
    /\ fpc' = [fpc EXCEPT ![c] = "unlock"]
    /\ UNCHANGED <<numFetchers, mutex, fLocal, selections>>

\* next(): the deferred rr.Unlock(), and the return of f.
NextUnlock(c) ==
    /\ fpc[c] = "unlock"
    /\ mutex' = 0
    /\ fpc' = [fpc EXCEPT ![c] = "call"]
    /\ UNCHANGED <<idx, numFetchers, fLocal, selections>>

\* Fetch: return f(ctx, path), the call of the selected sub-fetcher.
FetchReturn(c) ==
    /\ fpc[c] = "call"
    /\ fpc' = [fpc EXCEPT ![c] = "idle"]
    /\ fLocal' = [fLocal EXCEPT ![c] = -1]
    /\ UNCHANGED <<idx, numFetchers, mutex, selections>>

\* ------------------------------------------------------------ LeafConsumer

\* The contents of the leaves the workers observe.
LeafData == {"x", "y", "z"}

\* Leaf{Data, Index} as the workers submit it.
Leaves == [Data : LeafData, Index : 1..MaxIndex]

\* lru.Cache.Contains: whether the cache holds key k.
CacheHas(cache, k) == \E j \in 1..Len(cache) : cache[j].key = k

\* The value the cache holds for key k.
CacheValue(cache, k) ==
    LET j == CHOOSE j \in 1..Len(cache) : cache[j].key = k IN cache[j].val

\* The cache without key k, the order of the other entries kept.
CacheWithout(cache, k) == SelectSeq(cache, LAMBDA e : e.key # k)

\* A Get that leaves the recency order alone (lookup.Peek).
CacheTouch_NoMove(cache, k) == cache

\* The cache after lookup.Get(k) found k: the entry becomes the most recently used.
CacheTouch(cache, k) ==
    Append(CacheWithout(cache, k), [key |-> k, val |-> CacheValue(cache, k)])

\* The cache after lookup.Add(k, v): the entry is the most recently used, and
\* the least recently used one is evicted when the capacity is exceeded.
CacheAdd(cache, k, v) ==
    LET added == Append(CacheWithout(cache, k), [key |-> k, val |-> v]) IN
    IF Len(added) > CacheSize THEN Tail(added) ELSE added

\* NewLeafConsumer(): an empty channel, an empty cache and a count of 0.
InitConsumer ==
    /\ leafchan = <<>>
    /\ lookup = <<>>
    /\ duplicateCount = 0
    /\ lcpc = "select"
    /\ processed = <<>>

\* A worker submits the leaf it has read or written: leafchan <- l.
SubmitLeaf(l) ==
    /\ Len(leafchan) < LeafChanCap
    /\ Len(processed) + Len(leafchan) < MaxLeaves
    /\ leafchan' = Append(leafchan, l)
    /\ UNCHANGED <<lookup, duplicateCount, lcpc, processed>>

\* The test of a cache hit with every hit taken for a duplicate.
IsDuplicate_AnyHit(oIdx, lIdx) == TRUE

\* The test of a cache hit written oIdx < l.Index.
IsDuplicate_Greater(oIdx, lIdx) == oIdx < lIdx

\* LeafConsumer.Run, oIdx != l.Index: a hit counts when the indices differ.
IsDuplicate(oIdx, lIdx) == oIdx # lIdx

\* A consumer that stores the index of every leaf, hit or miss.
ConsumeLeaf_StoresLastSeen ==
    /\ lcpc = "select"
    /\ leafchan # <<>>
    /\ LET l == Head(leafchan) IN
         /\ lookup' = CacheAdd(lookup, l.Data, l.Index)
         /\ duplicateCount' =
               IF CacheHas(lookup, l.Data)
                     /\ IsDuplicate(CacheValue(lookup, l.Data), l.Index)
               THEN duplicateCount + 1
               ELSE duplicateCount
         /\ processed' = Append(processed, l)
    /\ leafchan' = Tail(leafchan)
    /\ UNCHANGED lcpc

\* LeafConsumer.Run, case l := <-c.leafchan: the leaf is looked up by its
\* content; a hit under another index is counted, a miss is added.
ConsumeLeaf ==
    /\ lcpc = "select"
    /\ leafchan # <<>>
    /\ LET l == Head(leafchan) IN
         /\ IF CacheHas(lookup, l.Data)
            THEN /\ lookup' = CacheTouch(lookup, l.Data)
                 /\ duplicateCount' =
                       IF IsDuplicate(CacheValue(lookup, l.Data), l.Index)
                       THEN duplicateCount + 1
                       ELSE duplicateCount
            ELSE /\ lookup' = CacheAdd(lookup, l.Data, l.Index)
                 /\ UNCHANGED duplicateCount
         /\ processed' = Append(processed, l)
    /\ leafchan' = Tail(leafchan)
    /\ UNCHANGED lcpc

\* LeafConsumer.Run, case <-ctx.Done() of the context Run was started with:
\* return, and the deferred close(c.leafchan).
ConsumerStop(done) ==
    /\ lcpc = "select"
    /\ done
    /\ lcpc' = "stopped"
    /\ UNCHANGED <<leafchan, lookup, duplicateCount, processed>>

\* ------------------------------------------------------ consistency poll

\* The raw checkpoints an ErrInconsistency can carry.
Checkpoints == {"cpA", "cpB"}

\* No error: tracker.Update succeeded.
NilErr == [kind |-> "nil"]

\* The errors tracker.Update can return: an ErrInconsistency with its two
\* conflicting checkpoints, or any other error.
UpdateErrors ==
    {[kind |-> "other"]}
      \cup {[kind |-> "inconsistency", SmallerRaw |-> cp[1], LargerRaw |-> cp[2]] :
               cp \in {c \in Checkpoints \X Checkpoints : c[1] # c[2]}}

\* errors.As(err, &inconsistentErr).
IsInconsistency(err) == err.kind = "inconsistency"

\* klog.Warning(err).
WarningLine(err) == [level |-> "warning", err |-> err]

\* A fatal line that prints the smaller checkpoint in both places.
FatalLine_SmallerTwice(err) ==
    [level |-> "fatal", lastGood |-> err.SmallerRaw, firstBad |-> err.SmallerRaw,
     err |-> err]

\* klog.Fatalf("Last Good Checkpoint:\n%s\n\nFirst Bad Checkpoint:\n%s\n\n%v",
\*             SmallerRaw, LargerRaw, inconsistentErr).
FatalLine(err) ==
    [level |-> "fatal", lastGood |-> err.SmallerRaw, firstBad |-> err.LargerRaw,
     err |-> err]

\* klog.V(1).Infof("Updated checkpoint from %d to %d", size, newSize).
InfoLine(size, newSize) == [level |-> "info", from |-> size, to |-> newSize]

\* The poll goroutine and the error drain as Hammer.Run starts them, with the
\* log size main's first tracker.Update found.
InitPoll(size) ==
    /\ ppc = "select"
    /\ trackerSize = size
    /\ lastErr = NilErr
    /\ ticks = 0
    /\ output = <<>>
    /\ exited = FALSE
    /\ errChan = 0
    /\ epc = "select"

\* A poll that ends the process on any error of tracker.Update.
PollTick_ExitsOnAnyError(err, newSize) ==
    /\ ppc = "select"
    /\ ~exited
    /\ ticks < MaxTicks
    /\ newSize >= trackerSize
    /\ err # NilErr => newSize = trackerSize
    /\ trackerSize' = newSize
    /\ lastErr' = err
    /\ ticks' = ticks + 1
    /\ IF err # NilErr
       THEN /\ output' = Append(output, WarningLine(err))
            /\ exited' = TRUE
       ELSE /\ output' = IF newSize > trackerSize
                         THEN Append(output, InfoLine(trackerSize, newSize))
                         ELSE output
            /\ UNCHANGED exited
    /\ UNCHANGED <<ppc, errChan, epc>>

\* The poll goroutine, case <-tick.C: tracker.Update returns err and leaves
\* the log size at newSize.  Any error is logged as a warning; an
\* ErrInconsistency is then logged by klog.Fatalf, which ends the process;
\* otherwise a grown size is logged.
PollTick(err, newSize) ==
    /\ ppc = "select"
    /\ ~exited
    /\ ticks < MaxTicks
    /\ newSize >= trackerSize
    /\ err # NilErr => newSize = trackerSize
    /\ trackerSize' = newSize
    /\ lastErr' = err
    /\ ticks' = ticks + 1
    /\ IF err # NilErr
       THEN IF IsInconsistency(err)
            THEN /\ output' = output \o <<WarningLine(err), FatalLine(err)>>
                 /\ exited' = TRUE
            ELSE /\ output' = Append(output, WarningLine(err))
                 /\ UNCHANGED exited
       ELSE /\ output' = IF newSize > trackerSize
                         THEN Append(output, InfoLine(trackerSize, newSize))
                         ELSE output
            /\ UNCHANGED exited
    /\ UNCHANGED <<ppc, errChan, epc>>

\* The poll goroutine, case <-ctx.Done(): return.
PollStop ==
    /\ ppc = "select"
    /\ ~exited
    /\ ctxDone
    /\ ppc' = "stopped"
    /\ UNCHANGED <<trackerSize, lastErr, ticks, output, exited, errChan, epc>>

\* A worker reports a failed read or write: errChan <- err.
ReportError ==
    /\ ~exited
    /\ errChan < ErrChanCap
    /\ errChan' = errChan + 1
    /\ UNCHANGED <<ppc, trackerSize, lastErr, ticks, output, exited, epc>>

\* The error drain, case err := <-h.errChan: klog.Warning(err).
DrainError ==
    /\ epc = "select"
    /\ ~exited
    /\ errChan > 0
    /\ errChan' = errChan - 1
    /\ UNCHANGED <<ppc, trackerSize, lastErr, ticks, output, exited, epc>>

\* The error drain, case <-ctx.Done(): return.
DrainStop ==
    /\ epc = "select"
    /\ ~exited
    /\ ctxDone
    /\ epc' = "stopped"
    /\ UNCHANGED <<ppc, trackerSize, lastErr, ticks, output, exited, errChan>>

\* ---------------------------------------------------------- leaf generator

\* The writer workers the writers pool has started.
Writers == 1..NumWriters

\* The generator a writer made by the factory of NewHammer calls: the one gen
\* built before the pools, which the factory hands to every NewLogWriter.
WriterGen(w) == "gen"

\* The values of a random byte that are told apart.
Bytes == {0, 255}

\* genLeaf(n, minLeafSize): the %x of minLeafSize/2 random bytes, a space and
\* the %d of n.  Two such payloads are equal exactly when the bytes and n are,
\* so a payload is the pair of them; the set is of the payloads crand can give.
genLeaf(n, size) ==
    {[filler |-> f, n |-> n] : f \in [1..(size \div 2) -> Bytes]}

\* newLeafGenerator(n, minLeafSize), no writer inside the closure.
InitGen(n, size) ==
    /\ minLeafSize = size
    /\ genN = n
    /\ nextLeaf \in genLeaf(n, size)
    /\ wpc = [w \in Writers |-> "idle"]
    /\ wN = [w \in Writers |-> 0]
    /\ wR = [w \in Writers |-> <<>>]
    /\ seed = n
    /\ returned = <<>>

\* A writer calls the generator: rand.Float64() <= dupChance decides the branch.
GenCall(w, dup) ==
    /\ wpc[w] = "idle"
    /\ Len(returned) + Cardinality({v \in Writers : wpc[v] # "idle"}) < MaxGenCalls
    /\ wpc' = [wpc EXCEPT ![w] = IF dup THEN "dup" ELSE "load"]
    /\ UNCHANGED <<minLeafSize, genN, nextLeaf, wN, wR, seed, returned>>

\* The duplicate branch: return nextLeaf.
GenReturnDup(w) ==
    /\ wpc[w] = "dup"
    /\ returned' = Append(returned, [writer |-> w, leaf |-> nextLeaf, dup |-> TRUE])
    /\ wpc' = [wpc EXCEPT ![w] = "idle"]
    /\ UNCHANGED <<minLeafSize, genN, nextLeaf, wN, wR, seed>>

\* n++, the load of n.
GenLoadN(w) ==
    /\ wpc[w] = "load"
    /\ wN' = [wN EXCEPT ![w] = genN]
    /\ wpc' = [wpc EXCEPT ![w] = "store"]
    /\ UNCHANGED <<minLeafSize, genN, nextLeaf, wR, seed, returned>>

\* An increment that skips an index.
Incremented_BySkip(n) == n + 2

\* n++, the value stored.
Incremented(n) == n + 1

\* n++, the store of n.
GenStoreN(w) ==
    /\ wpc[w] = "store"
    /\ genN' = Incremented(wN[w])
    /\ wpc' = [wpc EXCEPT ![w] = "take"]
    /\ UNCHANGED <<minLeafSize, nextLeaf, wN, wR, seed, returned>>

\* r := nextLeaf.
GenTake(w) ==
    /\ wpc[w] = "take"
    /\ wR' = [wR EXCEPT ![w] = nextLeaf]
    /\ wpc' = [wpc EXCEPT ![w] = "make"]
    /\ UNCHANGED <<minLeafSize, genN, nextLeaf, wN, seed, returned>>

\* nextLeaf = genLeaf(n, minLeafSize); return r.
GenMake(w) ==
    /\ wpc[w] = "make"
    /\ nextLeaf' \in genLeaf(genN, minLeafSize)
    /\ returned' = Append(returned, [writer |-> w, leaf |-> wR[w], dup |-> FALSE])
    /\ wpc' = [wpc EXCEPT ![w] = "idle"]
    /\ UNCHANGED <<minLeafSize, genN, wN, wR, seed>>

\* ------------------------------------------------------------ worker pools

\* The three pools of NewHammer, in the order Hammer.Run grows them.
Pools == <<"randomReaders", "fullReaders", "writers">>

PoolNames == {Pools[k] : k \in 1..Len(Pools)}

\* newWorkerPool(factory): no worker yet.  cancelFns holds the handle of each
\* running worker, named by the number of the Grow call that made it; grows,
\* shrinks and emptyShrinks count the calls.
NewWorkerPool ==
    [cancelFns |-> <<>>, running |-> {}, grows |-> 0, shrinks |-> 0,
     emptyShrinks |-> 0]

\* workerPool.Grow(ctx): a new worker is made and started under a derived
\* context, and its cancellation handle is appended.
Grow(pool) ==
    [pool EXCEPT !.cancelFns = Append(@, pool.grows + 1),
                 !.running = @ \cup {pool.grows + 1},
                 !.grows = @ + 1]

\* Shrink without the test for an empty pool taking effect on the count: the
\* last handle is cancelled but stays recorded.
Shrink_KeepsHandle(pool) ==
    IF Len(pool.cancelFns) = 0
    THEN [pool EXCEPT !.shrinks = @ + 1, !.emptyShrinks = @ + 1]
    ELSE [pool EXCEPT !.running = @ \ {pool.cancelFns[Len(pool.cancelFns)]},
                      !.shrinks = @ + 1]

\* workerPool.Shrink(ctx): on an empty pool nothing happens; otherwise the most
\* recently added worker is cancelled and its handle removed.
Shrink(pool) ==
    IF Len(pool.cancelFns) = 0
    THEN [pool EXCEPT !.shrinks = @ + 1, !.emptyShrinks = @ + 1]
    ELSE [pool EXCEPT !.cancelFns = SubSeq(@, 1, Len(@) - 1),
                      !.running = @ \ {pool.cancelFns[Len(pool.cancelFns)]},
                      !.shrinks = @ + 1]

\* NewHammer's pools and the flags Hammer.Run will grow them to.
InitPools(flags) ==
    /\ pools = [p \in PoolNames |-> NewWorkerPool]
    /\ numWorkers = flags
    /\ hpc = 1
    /\ runI = 0

\* Hammer.Run, the three start-up loops: one iteration grows the current pool,
\* a failed loop condition moves on to the next pool and, past the last, to
\* the rest of Run.
RunGrow ==
    /\ hpc \in 1..Len(Pools)
    /\ IF runI < numWorkers[Pools[hpc]]
       THEN /\ pools' = [pools EXCEPT ![Pools[hpc]] = Grow(@)]
            /\ runI' = runI + 1
            /\ UNCHANGED hpc
       ELSE /\ hpc' = hpc + 1
            /\ runI' = 0
            /\ UNCHANGED pools
    /\ UNCHANGED numWorkers

\* Hammer.Run has returned and main has entered hostUI.
Started == hpc = Len(Pools) + 1

\* ------------------------------------------------------------------ hostUI

\* hostUI's input capture for 'w': Grow on each of the three pools.
KeyGrow ==
    /\ Started
    /\ \A p \in PoolNames : pools[p].grows < MaxGrows
    /\ lastKey' = "w"
    /\ pools' = [p \in PoolNames |-> Grow(pools[p])]
    /\ UNCHANGED <<numWorkers, hpc, runI>>
    /\ UNCHANGED <<ctxDone, throttleVars, rrVars, consumerVars, pollVars, drainVars,
                   genVars, adjustVars, mainVars>>

\* hostUI's input capture for 'W': Shrink on each of the three pools.
KeyShrink ==
    /\ Started
    /\ \A p \in PoolNames : pools[p].shrinks < MaxShrinks
    /\ lastKey' = "W"
    /\ pools' = [p \in PoolNames |-> Shrink(pools[p])]
    /\ UNCHANGED <<numWorkers, hpc, runI>>
    /\ UNCHANGED <<ctxDone, throttleVars, rrVars, consumerVars, pollVars, drainVars,
                   genVars, adjustVars, mainVars>>

\* The throttle a rate key acts on.
KeyThrottle(k) == IF k \in {"+", "-"} THEN "read" ELSE "write"

\* hostUI's input capture for '+' and '>': Increase() of the read or write throttle.
KeyIncrease(k) ==
    /\ k \in {"+", ">"}
    /\ lastKey' = k
    /\ Increase(KeyThrottle(k))
    /\ UNCHANGED <<ctxDone, rrVars, poolVars, consumerVars, pollVars, drainVars, genVars,
                   adjustVars, mainVars>>

\* hostUI's input capture for '-' and '<': Decrease() of the read or write throttle.
KeyDecrease(k) ==
    /\ k \in {"-", "<"}
    /\ lastKey' = k
    /\ Decrease(KeyThrottle(k))
    /\ UNCHANGED <<ctxDone, rrVars, poolVars, consumerVars, pollVars, drainVars, genVars,
                   adjustVars, mainVars>>

\* -------------------------------------------------------------------- main

\* What main can find of one --log_url: a URL of a supported scheme, one that
\* url.Parse rejects, and one whose scheme getByScheme does not know.
URLKinds == {"ok", "unparsable", "unsupported"}

\* The sequences of at most n elements of S.
SeqsUpTo(S, n) == UNION {[1..k -> S] : k \in 0..n}

\* What a run of main can meet: whether logSigVerifier finds a usable key, the
\* --log_url flags, and whether NewLogStateTracker, the first tracker.Update
\* and rootURL.Parse("add") succeed.
Configs ==
    [keyOk : BOOLEAN, logURL : SeqsUpTo(URLKinds, MaxLogURLs), trackerOk : BOOLEAN,
     updateOk : BOOLEAN, addOk : BOOLEAN]

\* A run in which every start-up step succeeds, with one --log_url.
GoodConfig ==
    [keyOk |-> TRUE, logURL |-> <<"ok">>, trackerOk |-> TRUE, updateOk |-> TRUE,
     addOk |-> TRUE]

\* The goroutines NewHammer (the leaf consumer) and Hammer.Run (the error
\* drain, the two throttles and the poll) start.
RunTasks == {"errors", "readThrottle", "writeThrottle", "poll"}

Tasks == {"leafConsumer"} \cup RunTasks

\* What a step of main leaves alone besides the fetcher and the pools.
othersOfMain ==
    <<ctxDone, lastKey, throttleVars, consumerVars, pollVars, drainVars, genVars,
      adjustVars>>

\* main is entered with the flags parsed.
InitMain(cfg) ==
    /\ mpc = "verifier"
    /\ config = cfg
    /\ fetchers = 0
    /\ started = {}

\* main has built the engine, Hammer.Run has returned and hostUI is running.
HammerRunning ==
    /\ mpc = "ui"
    /\ config = GoodConfig
    /\ fetchers = 1
    /\ started = Tasks

\* logSigVerifier(*logPubKeyFile) returns an error: no key file that can be
\* read, no key in the environment, or a key note.NewVerifier rejects.
VerifierFails(cfg) == ~cfg.keyOk

\* main: logSigVerifier, and klog.Exitf on its error.
MainVerifier ==
    /\ mpc = "verifier"
    /\ mpc' = IF VerifierFails(config) THEN "exited" ELSE "urlcheck"
    /\ UNCHANGED <<config, fetchers, started, rrVars, poolVars, othersOfMain>>

\* main: klog.Exitf when no --log_url was given.
MainURLCheck ==
    /\ mpc = "urlcheck"
    /\ mpc' = IF Len(config.logURL) = 0 THEN "exited" ELSE "urls"
    /\ UNCHANGED <<config, fetchers, started, rrVars, poolVars, othersOfMain>>

\* url.Parse(s) returns an error.
ParseFails(s) == s = "unparsable"

\* newFetcher(root): getByScheme[root.Scheme] is nil.
SchemeUnsupported(s) == s = "unsupported"

\* main, one iteration of the loop over logURL: url.Parse and klog.Exitf on
\* its error, then newFetcher, which panics on an unsupported scheme, and the
\* append to fetchers.
MainURL ==
    /\ mpc = "urls"
    /\ fetchers < Len(config.logURL)
    /\ LET s == config.logURL[fetchers + 1] IN
         IF ParseFails(s)
         THEN mpc' = "exited" /\ UNCHANGED fetchers
         ELSE IF SchemeUnsupported(s)
              THEN mpc' = "panicked" /\ UNCHANGED fetchers
              ELSE fetchers' = fetchers + 1 /\ UNCHANGED mpc
    /\ UNCHANGED <<config, started, rrVars, poolVars, othersOfMain>>

\* main, after the loop: f := roundRobinFetcher{f: fetchers}.
MainRoundRobin ==
    /\ mpc = "urls"
    /\ fetchers = Len(config.logURL)
    /\ numFetchers' = fetchers
    /\ mpc' = "tracker"
    /\ UNCHANGED <<idx, mutex, fpc, fLocal, selections>>
    /\ UNCHANGED <<config, fetchers, started, poolVars, othersOfMain>>

\* client.NewLogStateTracker returns an error.
TrackerFails(cfg) == ~cfg.trackerOk

\* main: NewLogStateTracker, and klog.Exitf on its error.
MainTracker ==
    /\ mpc = "tracker"
    /\ mpc' = IF TrackerFails(config) THEN "exited" ELSE "update"
    /\ UNCHANGED <<config, fetchers, started, rrVars, poolVars, othersOfMain>>

\* A first tracker.Update whose error main does not look at.
UpdateFails_Ignored(cfg) == FALSE

\* The first tracker.Update(ctx) returns an error.
UpdateFails(cfg) == ~cfg.updateOk

\* main: the fetch of the initial state of the log, and klog.Exitf on its error.
MainUpdate ==
    /\ mpc = "update"
    /\ mpc' = IF UpdateFails(config) THEN "exited" ELSE "addurl"
    /\ UNCHANGED <<config, fetchers, started, rrVars, poolVars, othersOfMain>>

\* rootURL.Parse("add") returns an error.
AddURLFails(cfg) == ~cfg.addOk

\* main: the add URL, and klog.Exitf on its error.
MainAddURL ==
    /\ mpc = "addurl"
    /\ mpc' = IF AddURLFails(config) THEN "exited" ELSE "newhammer"
    /\ UNCHANGED <<config, fetchers, started, rrVars, poolVars, othersOfMain>>

\* main: NewHammer, which starts leafConsumer.Run and builds the pools.
MainNewHammer ==
    /\ mpc = "newhammer"
    /\ started' = started \cup {"leafConsumer"}
    /\ mpc' = "run"
    /\ UNCHANGED <<config, fetchers, rrVars, poolVars, othersOfMain>>

\* main: hammer.Run, one step of its start-up loops over the pools.
MainRunGrow ==
    /\ mpc = "run"
    /\ RunGrow
    /\ UNCHANGED <<mainVars, rrVars, othersOfMain>>

\* main: hammer.Run past its start-up loops: the four go statements, and the
\* return to main, which enters hostUI.
MainRunStart ==
    /\ mpc = "run"
    /\ Started
    /\ started' = started \cup RunTasks
    /\ mpc' = "ui"
    /\ UNCHANGED <<config, fetchers, rrVars, poolVars, othersOfMain>>

\* The goroutine running Throttle.Run of throttle t.
ThrottleTask(t) == IF t = "read" THEN "readThrottle" ELSE "writeThrottle"

\* ------------------------------------------------- SpecRate: the rate keys

InitRate ==
    /\ ctxDone = FALSE
    /\ lastKey = ""
    /\ \E rates \in [Throttles -> 0..MaxInitRate] : InitThrottles(rates)
    /\ InitRR(1)
    /\ InitPools([p \in PoolNames |-> 0])
    /\ InitConsumer
    /\ InitPoll(0)
    /\ InitGen(0, 0)
    /\ InitAdjust
    /\ HammerRunning

NextRate ==
    \/ \E k \in {"+", ">"} :
          KeyIncrease(k) /\ opsPerSecond'[KeyThrottle(k)] <= MaxRate
    \/ \E k \in {"-", "<"} : KeyDecrease(k)

SpecRate == InitRate /\ [][NextRate]_vars

\* C1: once a throttle's opsPerSecond has been >= 1 it stays >= 1 over every
\* later Increase() and Decrease(), and a Decrease() called when opsPerSecond
\* is <= 1 leaves it unchanged.
C1_RateFloor ==
    [][\A t \in Throttles :
          /\ opsPerSecond[t] >= 1 => opsPerSecond'[t] >= 1
          /\ (lastKey' \in {"-", "<"} /\ t = KeyThrottle(lastKey')
                /\ opsPerSecond[t] <= 1)
             => opsPerSecond'[t] = opsPerSecond[t]]_vars

\* C1's case: the read throttle has been raised to 20, lowered again by a
\* step of 2, and the last key was a Decrease() of the write throttle at 1.
C1_Witness ==
    /\ opsPerSecond["read"] = 18
    /\ opsPerSecond["write"] = 1
    /\ lastKey = "<"

\* ------------------------------------- SpecThrottle: one throttle's refill

\* The throttle whose refill loop SpecThrottle runs; the other one is a second
\* instance of the same code and stays as constructed.
Subject == "read"

InitThrottle ==
    /\ ctxDone = FALSE
    /\ lastKey = ""
    /\ \E r \in 0..MaxInitRate :
          InitThrottles([t \in Throttles |-> IF t = Subject THEN r ELSE 0])
    /\ InitRR(1)
    /\ InitPools([p \in PoolNames |-> 0])
    /\ InitConsumer
    /\ InitPoll(0)
    /\ InitGen(0, 0)
    /\ InitAdjust
    /\ HammerRunning

NextThrottle ==
    \/ KeyIncrease("+") /\ opsPerSecond'[Subject] <= MaxRunRate
    \/ KeyDecrease("-")
    \/ RunTick(Subject) /\ UNCHANGED othersOfThrottle
    \/ RunLoopCheck(Subject) /\ UNCHANGED othersOfThrottle
    \/ RunPush(Subject) /\ UNCHANGED othersOfThrottle
    \/ RunHandOff(Subject) /\ UNCHANGED othersOfThrottle
    \/ RunTimeout(Subject) /\ UNCHANGED othersOfThrottle
    \/ Acquire(Subject) /\ UNCHANGED othersOfThrottle

SpecThrottle == InitThrottle /\ [][NextThrottle]_vars

\* C2: in every refill cycle the number of tokens pushed into tokenChan never
\* exceeds the value opsPerSecond had when the cycle started, also when
\* Increase() runs while the push loop is in progress.
C2_PushedWithinStartRate ==
    \A t \in Throttles : loopI[t] <= cycleRate[t]

\* C10: at the start of every refill cycle the tokens held in tokenChan are at
\* most the current opsPerSecond.
C10_HeldWithinRate ==
    \A t \in Throttles : cycleHeld[t] <= cycleRate[t]

\* C16: while a throttle's opsPerSecond is 0, Run is never at a push, no token
\* has been pushed in the current cycle, none is held in tokenChan and no
\* worker has received one; and no step taken while opsPerSecond is 0 pushes
\* or hands over a token.
C16_NoTokenAtRateZero ==
    [][\A t \in Throttles :
          /\ opsPerSecond[t] = 0 =>
                /\ tpc[t] # "push"
                /\ loopI[t] = 0
                /\ tokenChan[t] = 0
                /\ taken[t] = 0
          /\ opsPerSecond[t] = 0 =>
                /\ tokenChan'[t] = tokenChan[t]
                /\ taken'[t] = taken[t]
                /\ loopI'[t] = 0]_vars

\* C16's case: a throttle constructed with rate 0 is inside a refill cycle that
\* started at rate 0, at the loop condition, and no worker has received a token.
C16_Witness ==
    /\ opsPerSecond[Subject] = 0
    /\ chanCap[Subject] = 0
    /\ tpc[Subject] = "loop"
    /\ cycleRate[Subject] = 0
    /\ taken[Subject] = 0

\* C19: at the end of every refill cycle, oversupply is set to the rate read
\* at the start of the cycle minus the number of tokens pushed in the cycle,
\* and that value lies in 0..(rate at cycle start), also when Increase() or
\* Decrease() run during the cycle.
C19_OversupplyInRange ==
    [][\A t \in Throttles :
          (tpc[t] \in {"loop", "push"} /\ tpc'[t] = "select")
             => /\ oversupply'[t] = cycleRate[t] - loopI[t]
                /\ oversupply'[t] \in 0..cycleRate[t]]_vars

\* C19 without the range: oversupply is the rate at cycle start minus the
\* pushes of the cycle.
C19_OversupplyIsRateMinusPushed ==
    [][\A t \in Throttles :
          (tpc[t] \in {"loop", "push"} /\ tpc'[t] = "select")
             => oversupply'[t] = cycleRate[t] - loopI[t]]_vars

\* ------------------------- SpecRefill: the refill loop at an unchanged rate

InitRefill == InitThrottle

NextRefill ==
    \/ RunTick(Subject) /\ UNCHANGED othersOfThrottle
    \/ RunLoopCheck(Subject) /\ UNCHANGED othersOfThrottle
    \/ RunPush(Subject) /\ UNCHANGED othersOfThrottle
    \/ RunTimeout(Subject) /\ UNCHANGED othersOfThrottle
    \/ Acquire(Subject) /\ UNCHANGED othersOfThrottle

SpecRefill == InitRefill /\ [][NextRefill]_vars

\* C11: in no refill interval, counted from one tick of Run to the next, do
\* the workers receive more tokens than the rate of that interval: the tokens
\* of an earlier interval that nobody received are not there to be received.
C11_TakenWithinRate ==
    \A t \in Throttles : taken[t] <= cycleRate[t]

\* ------------- SpecWait: a worker waiting on a throttle constructed at rate 0

InitWait ==
    /\ ctxDone = FALSE
    /\ lastKey = ""
    /\ InitThrottles([t \in Throttles |-> 0])
    /\ InitRR(1)
    /\ InitPools([p \in PoolNames |-> 0])
    /\ InitConsumer
    /\ InitPoll(0)
    /\ InitGen(0, 0)
    /\ InitAdjust
    /\ HammerRunning

\* The worker is always ready to receive, so a send of Run is a hand-over; the
\* channel has no buffer to push into or to receive from.
NextWait ==
    \/ KeyIncrease("+") /\ opsPerSecond'[Subject] <= MaxRunRate
    \/ KeyDecrease("-")
    \/ RunTick(Subject) /\ UNCHANGED othersOfThrottle
    \/ RunLoopCheck(Subject) /\ UNCHANGED othersOfThrottle
    \/ RunHandOff(Subject) /\ UNCHANGED othersOfThrottle
    \/ RunTimeout(Subject) /\ UNCHANGED othersOfThrottle

\* The ticker of Run fires every second and the loop runs on; a select whose
\* send finds the receiver waiting when it is entered, cycle after cycle,
\* takes the send before the timeout of a second later.
FairWait ==
    /\ WF_vars(RunTick(Subject) /\ UNCHANGED othersOfThrottle)
    /\ WF_vars(RunLoopCheck(Subject) /\ UNCHANGED othersOfThrottle)
    /\ SF_vars(RunHandOff(Subject) /\ UNCHANGED othersOfThrottle)

SpecWait == InitWait /\ [][NextWait]_vars /\ FairWait

\* C18: once Increase() has been called on a throttle constructed with rate 0,
\* the worker waiting on its tokenChan eventually receives a token.
C18_WaiterGetsToken ==
    (chanCap[Subject] = 0 /\ lastKey = "+") ~> (taken[Subject] >= 1)

\* C18's case: the throttle was constructed with rate 0 and raised, and the
\* waiting worker has been handed a token in the current cycle.
C18_Witness ==
    /\ chanCap[Subject] = 0
    /\ opsPerSecond[Subject] >= 1
    /\ cycleRate[Subject] >= 1
    /\ taken[Subject] >= 1

\* ------------- SpecAdjust: Increase() and Decrease() called concurrently

InitAdjusters ==
    /\ ctxDone = FALSE
    /\ lastKey = ""
    /\ \E r \in 0..MaxInitRate :
          InitThrottles([t \in Throttles |-> IF t = Subject THEN r ELSE 0])
    /\ InitRR(1)
    /\ InitPools([p \in PoolNames |-> 0])
    /\ InitConsumer
    /\ InitPoll(0)
    /\ InitGen(0, 0)
    /\ InitAdjust
    /\ HammerRunning

NextAdjusters ==
    \/ \E c \in Adjusters : IncreaseLoad(c, Subject) /\ UNCHANGED othersOfAdjust
    \/ \E c \in Adjusters : IncreaseStore(c) /\ UNCHANGED othersOfAdjust
    \/ \E c \in Adjusters : DecreaseLoad(c, Subject) /\ UNCHANGED othersOfAdjust
    \/ \E c \in Adjusters : DecreaseStore(c) /\ UNCHANGED othersOfAdjust

SpecAdjust == InitAdjusters /\ [][NextAdjusters]_vars

\* The rates that i calls of Increase() and d calls of Decrease(), made one at
\* a time in some order, can leave a throttle of rate r at.
RECURSIVE SerialOutcomes(_, _, _)
SerialOutcomes(r, i, d) ==
    IF i = 0 /\ d = 0
    THEN {r}
    ELSE (IF i > 0 THEN SerialOutcomes(IncreaseRate(r), i - 1, d) ELSE {})
           \cup (IF d > 0 THEN SerialOutcomes(DecreaseRate(r), i, d - 1) ELSE {})

\* C12: when the concurrent calls of Increase() and Decrease() have all
\* returned, opsPerSecond is what the same calls made one at a time, in some
\* order, leave: no update is lost.
C12_NoLostUpdate ==
    \A t \in Throttles :
        (\A c \in Adjusters : apc[c] = "idle")
            => opsPerSecond[t] \in SerialOutcomes(rate0[t], incCalls[t], decCalls[t])

\* ------------------------------------ SpecRR: concurrent callers of Fetch

InitFetch ==
    /\ ctxDone = FALSE
    /\ lastKey = ""
    /\ InitThrottles([t \in Throttles |-> 0])
    /\ \E n \in 1..MaxFetchers : InitRR(n)
    /\ InitPools([p \in PoolNames |-> 0])
    /\ InitConsumer
    /\ InitPoll(0)
    /\ InitGen(0, 0)
    /\ InitAdjust
    /\ HammerRunning

NextFetch ==
    \/ \E c \in Callers : FetchCall(c) /\ UNCHANGED othersOfRR
    \/ \E c \in Callers : NextLock(c) /\ UNCHANGED othersOfRR
    \/ \E c \in Callers : NextRead(c) /\ UNCHANGED othersOfRR
    \/ \E c \in Callers : NextWrite(c) /\ UNCHANGED othersOfRR
    \/ \E c \in Callers : NextUnlock(c) /\ UNCHANGED othersOfRR
    \/ \E c \in Callers : FetchReturn(c) /\ UNCHANGED othersOfRR

SpecRR == InitFetch /\ [][NextFetch]_vars

\* C3: the k-th selection made by next(), k counted from 0 in the order the
\* callers pass through the lock, is sub-fetcher k mod N, and idx stays in
\* 0..N-1.
C3_StrictRotation ==
    /\ idx \in 0..(numFetchers - 1)
    /\ \A k \in 1..Len(selections) : selections[k] = (k - 1) % numFetchers

\* C3's case: with 3 sub-fetchers the rotation has wrapped around to
\* sub-fetcher 0, one caller being inside next() while another is still in the
\* sub-fetcher it selected before.
C3_Witness ==
    /\ numFetchers = 3
    /\ Len(selections) = 4
    /\ selections[4] = 0
    /\ \E c, d \in Callers : fpc[c] = "write" /\ fpc[d] = "call" /\ fLocal[d] = 2

\* ------------------------- SpecPools: Hammer.Run's start-up and the w/W keys

InitWorkers ==
    /\ ctxDone = FALSE
    /\ lastKey = ""
    /\ InitThrottles([t \in Throttles |-> 0])
    /\ InitRR(1)
    /\ \E flags \in [PoolNames -> 0..MaxInitWorkers] : InitPools(flags)
    /\ InitConsumer
    /\ InitPoll(0)
    /\ InitGen(0, 0)
    /\ InitAdjust
    /\ HammerRunning

NextWorkers ==
    \/ RunGrow /\ UNCHANGED othersOfPools
    \/ KeyGrow
    \/ KeyShrink

SpecPools == InitWorkers /\ [][NextWorkers]_vars

\* The size of a pool: the number of recorded cancellation handles.
Size(p) == Len(pools[p].cancelFns)

\* C4 as stated: after k Grow and m Shrink calls in any order, m <= k, the
\* size of the pool is k - m.
C4_SizeIsGrowsMinusShrinks ==
    \A p \in PoolNames :
        pools[p].shrinks <= pools[p].grows
            => Size(p) = pools[p].grows - pools[p].shrinks

\* C4, amended: after k Grow and m Shrink calls in any order, of which e met
\* an empty pool, the size of the pool is k - (m - e), which is k - m when no
\* Shrink met an empty pool; the size is the number of running workers, the
\* handles are those of the running workers, oldest first, and the size is
\* never negative.
C4_SizeIsGrowsMinusEffectiveShrinks ==
    \A p \in PoolNames :
        /\ Size(p) = pools[p].grows - (pools[p].shrinks - pools[p].emptyShrinks)
        /\ Size(p) = Cardinality(pools[p].running)
        /\ {pools[p].cancelFns[k] : k \in 1..Size(p)} = pools[p].running
        /\ Size(p) >= 0
        /\ pools[p].emptyShrinks = 0
              => Size(p) = pools[p].grows - pools[p].shrinks

\* C4's case: Grow and Shrink calls have been interleaved on one pool, one of
\* the Shrink calls on the empty pool, and a worker is running again.
C4_Witness ==
    \E p \in PoolNames :
        /\ pools[p].grows = 2
        /\ pools[p].shrinks = 2
        /\ pools[p].emptyShrinks = 1
        /\ Size(p) = 1

\* ------------------------------- SpecConsumer: the LeafConsumer and its feed

InitLeaves ==
    /\ ctxDone = FALSE
    /\ lastKey = ""
    /\ InitThrottles([t \in Throttles |-> 0])
    /\ InitRR(1)
    /\ InitPools([p \in PoolNames |-> 0])
    /\ InitConsumer
    /\ InitPoll(0)
    /\ InitGen(0, 0)
    /\ InitAdjust
    /\ HammerRunning

NextLeaves ==
    \/ \E l \in Leaves :
          SubmitLeaf(l) /\ UNCHANGED othersOfConsumer
    \/ ConsumeLeaf /\ UNCHANGED othersOfConsumer

SpecConsumer == InitLeaves /\ [][NextLeaves]_vars

\* C5: duplicateCount never decreases; it increases, by exactly 1, only in a
\* step that processes a leaf whose content is in the cache under another
\* index; after the leaves (x,1),(x,1) it is 0 and after (x,1),(x,2) it is 1.
C5_DuplicateCount ==
    [][/\ duplicateCount' >= duplicateCount
       /\ duplicateCount' # duplicateCount =>
             /\ duplicateCount' = duplicateCount + 1
             /\ leafchan # <<>>
             /\ processed' = Append(processed, Head(leafchan))
             /\ CacheHas(lookup, Head(leafchan).Data)
             /\ CacheValue(lookup, Head(leafchan).Data) # Head(leafchan).Index
       /\ processed' = <<[Data |-> "x", Index |-> 1], [Data |-> "x", Index |-> 1]>>
             => duplicateCount' = 0
       /\ processed' = <<[Data |-> "x", Index |-> 1], [Data |-> "x", Index |-> 2]>>
             => duplicateCount' = 1]_vars

\* C5's case: (x,1) then (x,2) have been processed and counted once, and a
\* further leaf with the stored index has been processed without a count.
C5_Witness ==
    /\ processed = <<[Data |-> "x", Index |-> 1], [Data |-> "x", Index |-> 2],
                     [Data |-> "x", Index |-> 1]>>
    /\ duplicateCount = 1

\* The position in processed of the last of the first m leaves with content
\* d, or 0 when none of them has it.
LastPos(d, m) ==
    LET ks == {k \in 1..m : processed[k].Data = d} IN
    IF ks = {} THEN 0 ELSE CHOOSE k \in ks : \A j \in ks : j <= k

\* Whether content d is among the CacheSize contents most recently met when
\* the first m leaves have been processed: it was met, and fewer than
\* CacheSize other contents were met after its last leaf.
Cached(d, m) ==
    /\ LastPos(d, m) > 0
    /\ Cardinality({processed[j].Data : j \in (LastPos(d, m) + 1)..m}) < CacheSize

\* The position in processed of the leaf that brought content d into the
\* cache it is in now: the first leaf with content d since d was last absent.
InsertPos(d) ==
    LET m  == Len(processed)
        ks == {k \in 1..m : /\ processed[k].Data = d
                            /\ \A j \in k..m : Cached(d, j)}
    IN  CHOOSE k \in ks : \A j \in ks : k <= j

\* C13 as stated: for each content in the cache, the stored index is the
\* index of the most recently processed leaf with that content.
C13_StoresLastSeenIndex ==
    \A j \in 1..Len(lookup) :
        /\ LastPos(lookup[j].key, Len(processed)) > 0
        /\ lookup[j].val =
              processed[LastPos(lookup[j].key, Len(processed))].Index

\* C13, amended: for each content in the cache, the stored index is the index
\* of the leaf that inserted it, the first leaf with that content processed
\* since the content was last absent from the cache; later leaves with the
\* same content leave the stored index as it is.
C13_StoresInsertingIndex ==
    \A j \in 1..Len(lookup) :
        /\ Cached(lookup[j].key, Len(processed))
        /\ lookup[j].val = processed[InsertPos(lookup[j].key)].Index

\* C13's case: (x,1) inserted x, another content was processed, then (x,2):
\* the cache still holds index 1 for x, the last leaf with x had index 2.
C13_Witness ==
    /\ processed = <<[Data |-> "x", Index |-> 1], [Data |-> "y", Index |-> 1],
                     [Data |-> "x", Index |-> 2]>>
    /\ CacheHas(lookup, "x")
    /\ CacheValue(lookup, "x") = 1

\* C14: the cache never holds more than CacheSize entries; it holds exactly
\* the CacheSize contents most recently met, a hit counting as a use, so what
\* is evicted is the least recently used content; and a leaf whose content is
\* not in the cache (never seen, or evicted) is a miss: it is inserted with
\* its own index and duplicateCount is not incremented.
C14_BoundedLRU ==
    [][/\ Len(lookup') <= CacheSize
       /\ \A d \in LeafData : CacheHas(lookup', d) <=> Cached(d, Len(processed))'
       /\ \A j, k \in 1..Len(lookup') : lookup'[j].key = lookup'[k].key => j = k
       /\ processed' # processed =>
             LET l == Head(leafchan) IN
             ~Cached(l.Data, Len(processed)) =>
                /\ duplicateCount' = duplicateCount
                /\ CacheHas(lookup', l.Data)
                /\ CacheValue(lookup', l.Data) = l.Index
                /\ lookup'[Len(lookup')].key = l.Data]_vars

\* C14's case: x was seen at index 1 and evicted by two other contents; x at
\* index 2 is then a miss: not counted, and inserted with index 2.
C14_Witness ==
    /\ processed = <<[Data |-> "x", Index |-> 1], [Data |-> "y", Index |-> 1],
                     [Data |-> "z", Index |-> 1], [Data |-> "x", Index |-> 2]>>
    /\ duplicateCount = 0
    /\ lookup = <<[key |-> "z", val |-> 1], [key |-> "x", val |-> 2]>>

\* C20 as stated: processing a leaf whose (content, index) pair was processed
\* before, the content not evicted since, does not increase duplicateCount,
\* whatever leaves with the same content and other indices came in between.
C20_SeenPairNotCounted ==
    [][processed' # processed =>
          LET l == Head(leafchan)
              m == Len(processed)
          IN  (\E k \in 1..m : /\ processed[k] = l
                               /\ \A j \in k..m : Cached(l.Data, j))
                 => duplicateCount' = duplicateCount]_vars

\* C20, amended: processing a leaf whose content is in the cache does not
\* increase duplicateCount exactly when its index is that of the leaf that
\* inserted the content (the first leaf with that content since the content
\* was last absent from the cache), whatever leaves with the same content and
\* other indices came in between; with any other index, also one processed
\* before, it increases duplicateCount by 1.
C20_InsertingPairNotCounted ==
    [][processed' # processed =>
          LET l == Head(leafchan)
              m == Len(processed)
          IN  Cached(l.Data, m) =>
                 duplicateCount' =
                    IF processed[InsertPos(l.Data)].Index = l.Index
                    THEN duplicateCount
                    ELSE duplicateCount + 1]_vars

\* C20's case: (x,1) inserted x; (x,2) and a leaf of another content came in
\* between; (x,1) again was not counted, so only (x,2) was.
C20_Witness ==
    /\ processed = <<[Data |-> "x", Index |-> 1], [Data |-> "x", Index |-> 2],
                     [Data |-> "y", Index |-> 1], [Data |-> "x", Index |-> 1]>>
    /\ duplicateCount = 1

\* ------------------------------------ SpecPoll: the consistency poll's ticks

InitTicks ==
    /\ ctxDone = FALSE
    /\ lastKey = ""
    /\ InitThrottles([t \in Throttles |-> 0])
    /\ InitRR(1)
    /\ InitPools([p \in PoolNames |-> 0])
    /\ InitConsumer
    /\ \E size \in 0..MaxSize : InitPoll(size)
    /\ InitGen(0, 0)
    /\ InitAdjust
    /\ HammerRunning

NextTicks ==
    \/ \E err \in UpdateErrors \cup {NilErr}, newSize \in 0..MaxSize :
          /\ PollTick(err, newSize)
          /\ UNCHANGED othersOfPoll
    \/ ReportError
          /\ UNCHANGED othersOfPoll
    \/ DrainError
          /\ UNCHANGED othersOfPoll

SpecPoll == InitTicks /\ [][NextTicks]_vars

\* C6: when a tick's tracker.Update returns an ErrInconsistency, the process
\* is terminated in that same tick with SmallerRaw and LargerRaw in the output
\* of the termination, and no tick is processed afterwards.
C6_InconsistencyIsFatal ==
    [][/\ (ticks' # ticks /\ lastErr'.kind = "inconsistency")
            => /\ exited'
               /\ Len(output') > 0
               /\ output'[Len(output')].level = "fatal"
               /\ output'[Len(output')].lastGood = lastErr'.SmallerRaw
               /\ output'[Len(output')].firstBad = lastErr'.LargerRaw
       /\ exited => (ticks' = ticks /\ output' = output)]_vars

\* C6's case: the poll ran a tick without error, one with another error, and
\* then one whose Update reported an inconsistency, which ended the process.
C6_Witness ==
    /\ ticks = 3
    /\ exited
    /\ lastErr.kind = "inconsistency"
    /\ \E k \in 1..Len(output) : output[k].level = "info"
    /\ \E k \in 1..Len(output) :
          output[k].level = "warning" /\ output[k].err = [kind |-> "other"]

\* C15: a tick whose tracker.Update returns an error that is not an
\* ErrInconsistency logs the error as a warning and nothing else, and leaves
\* the process running and the poll at its select; and in every state after
\* such a tick the poll can take a further tick, so Update is called again,
\* however many such errors came before.
C15_OtherErrorIsRetried ==
    /\ [][(ticks' # ticks /\ lastErr'.kind = "other")
             => /\ ~exited'
                /\ ppc' = "select"
                /\ output' = Append(output, [level |-> "warning", err |-> lastErr'])
                /\ trackerSize' = trackerSize]_vars
    /\ [](lastErr.kind = "other" =>
             /\ ~exited
             /\ ppc = "select"
             /\ ticks < MaxTicks =>
                   ENABLED (\E err \in UpdateErrors \cup {NilErr} :
                               PollTick(err, trackerSize)))

\* C15's case: three ticks in a row whose Update failed with another error,
\* each logged, and the poll still waiting for its next tick.
C15_Witness ==
    /\ ticks = 3
    /\ output = <<[level |-> "warning", err |-> [kind |-> "other"]],
                  [level |-> "warning", err |-> [kind |-> "other"]],
                  [level |-> "warning", err |-> [kind |-> "other"]]>>
    /\ ~exited
    /\ ppc = "select"

\* ---------------------------------- SpecGen: one caller of the leaf generator

\* The parts of the engine the generator specifications leave as constructed.
OthersIdle ==
    /\ ctxDone = FALSE
    /\ lastKey = ""
    /\ InitThrottles([t \in Throttles |-> 0])
    /\ InitRR(1)
    /\ InitPools([p \in PoolNames |-> 0])
    /\ InitConsumer
    /\ InitPoll(0)
    /\ InitAdjust
    /\ HammerRunning

InitOneWriter ==
    /\ OthersIdle
    /\ \E n \in 0..MaxSize, size \in 0..MaxLeafMinSize : InitGen(n, size)

NextOneWriter ==
    \/ \E dup \in BOOLEAN : GenCall(1, dup) /\ UNCHANGED othersOfGen
    \/ GenReturnDup(1) /\ UNCHANGED othersOfGen
    \/ GenLoadN(1) /\ UNCHANGED othersOfGen
    \/ GenStoreN(1) /\ UNCHANGED othersOfGen
    \/ GenTake(1) /\ UNCHANGED othersOfGen
    \/ GenMake(1) /\ UNCHANGED othersOfGen

SpecGen == InitOneWriter /\ [][NextOneWriter]_vars

\* The index carried by the k-th payload returned.
ReturnedIndex(k) == returned[k].leaf.n

\* C7: with a single caller, the first payload returned carries the seed n;
\* the indices of successive payloads differ by 0 or 1; a call on the
\* duplicate branch leaves nextLeaf and n unchanged; when no call takes the
\* duplicate branch the indices are strictly increasing, and when every call
\* takes it every call returns the same payload.
C7_IndexMonotonic ==
    [][/\ Len(returned') >= 1 => ReturnedIndex(1)' = seed'
       /\ \A k \in 1..(Len(returned') - 1) :
             ReturnedIndex(k + 1)' - ReturnedIndex(k)' \in {0, 1}
       /\ (wpc[1] = "dup" \/ wpc'[1] = "dup") => UNCHANGED <<nextLeaf, genN>>
       /\ (\A k \in 1..Len(returned') : ~returned'[k].dup)
             => \A k \in 1..(Len(returned') - 1) :
                   ReturnedIndex(k + 1)' = ReturnedIndex(k)' + 1
       /\ (\A k \in 1..Len(returned') : returned'[k].dup)
             => \A k \in 1..Len(returned') : returned'[k].leaf = returned'[1].leaf
      ]_vars

\* C7's case: from seed 1 a fresh payload, its injected duplicate twice (the
\* duplicate call and the advancing call after it), and the next index.
C7_Witness ==
    /\ seed = 1
    /\ Len(returned) = 4
    /\ <<ReturnedIndex(1), ReturnedIndex(2), ReturnedIndex(3), ReturnedIndex(4)>>
          = <<1, 2, 2, 3>>
    /\ <<returned[1].dup, returned[2].dup, returned[3].dup, returned[4].dup>>
          = <<FALSE, TRUE, FALSE, FALSE>>

\* --------------------------- SpecWriters: the writers calling the generator

InitWriters ==
    /\ OthersIdle
    /\ \E n \in 0..MaxSize, size \in 0..MaxLeafMinSize : InitGen(n, size)

NextWriters ==
    \/ \E w \in Writers, dup \in BOOLEAN : GenCall(w, dup) /\ UNCHANGED othersOfGen
    \/ \E w \in Writers : GenReturnDup(w) /\ UNCHANGED othersOfGen
    \/ \E w \in Writers : GenLoadN(w) /\ UNCHANGED othersOfGen
    \/ \E w \in Writers : GenStoreN(w) /\ UNCHANGED othersOfGen
    \/ \E w \in Writers : GenTake(w) /\ UNCHANGED othersOfGen
    \/ \E w \in Writers : GenMake(w) /\ UNCHANGED othersOfGen

SpecWriters == InitWriters /\ [][NextWriters]_vars

\* The calls that returned after advancing the index.
Advances == {k \in 1..Len(returned) : ~returned[k].dup}

\* C9: two writers are never inside the read-and-advance of the same
\* generator at once, each having a generator of its own; so no advance of
\* the index is lost and no payload is handed out by two advancing calls.
C9_OwnGenerator ==
    /\ \A w, v \in Writers :
          (w # v /\ wpc[w] # "idle" /\ wpc[v] # "idle")
             => WriterGen(w) # WriterGen(v)
    /\ (\A w \in Writers : wpc[w] = "idle") => genN = seed + Cardinality(Advances)
    /\ \A j, k \in Advances : j # k => returned[j].leaf # returned[k].leaf

\* C9 without its first conjunct: what the sharing of the generator costs.
C9_NoLostAdvance ==
    /\ (\A w \in Writers : wpc[w] = "idle") => genN = seed + Cardinality(Advances)
    /\ \A j, k \in Advances : j # k => returned[j].leaf # returned[k].leaf

\* ------------------------- SpecCancel: the tasks of the engine and ctx.Done

\* The ctx given to Hammer.Run is cancelled.
Cancel ==
    /\ ~ctxDone
    /\ ctxDone' = TRUE
    /\ UNCHANGED <<lastKey, throttleVars, rrVars, poolVars, consumerVars, pollVars,
                   drainVars, genVars, adjustVars, mainVars>>

\* Whether the context LeafConsumer.Run was started with is done: NewHammer
\* starts it with context.Background(), which is never cancelled, whatever
\* happens to the ctx of Hammer.Run.
ConsumerCtxDone == FALSE




InitCancel ==
    /\ ctxDone = FALSE
    /\ lastKey = ""
    /\ \E rates \in [Throttles -> 0..MaxCancelRate] : InitThrottles(rates)
    /\ InitRR(1)
    /\ InitPools([p \in PoolNames |-> 0])
    /\ InitConsumer
    /\ InitPoll(0)
    /\ InitGen(0, 0)
    /\ InitAdjust
    /\ HammerRunning

NextCancel ==
    \/ ~exited /\ Cancel
    \/ \E t \in Throttles : ~exited /\ RunTick(t) /\ UNCHANGED othersOfThrottle
    \/ \E t \in Throttles : ~exited /\ RunLoopCheck(t) /\ UNCHANGED othersOfThrottle
    \/ \E t \in Throttles : ~exited /\ RunPush(t) /\ UNCHANGED othersOfThrottle
    \/ \E t \in Throttles : ~exited /\ RunTimeout(t) /\ UNCHANGED othersOfThrottle
    \/ \E t \in Throttles : ~exited /\ RunStop(t) /\ UNCHANGED othersOfThrottle
    \/ \E t \in Throttles : ~exited /\ Acquire(t) /\ UNCHANGED othersOfThrottle
    \/ \E err \in {e \in UpdateErrors \cup {NilErr} :
                       IsInconsistency(e) => e.SmallerRaw = "cpA"} :
          PollTick(err, trackerSize) /\ ticks' <= MaxCancelTicks /\ UNCHANGED othersOfPoll
    \/ PollStop /\ UNCHANGED othersOfPoll
    \/ ReportError /\ errChan' <= MaxCancelErrors /\ UNCHANGED othersOfPoll
    \/ DrainError /\ UNCHANGED othersOfPoll
    \/ DrainStop /\ UNCHANGED othersOfPoll
    \/ \E l \in {m \in Leaves : m.Data = "x" /\ m.Index = 1} :
          /\ ~exited
          /\ SubmitLeaf(l)
          /\ Len(processed) + Len(leafchan) < MaxCancelLeaves
          /\ UNCHANGED othersOfConsumer
    \/ ~exited /\ ConsumeLeaf /\ UNCHANGED othersOfConsumer

\* The scheduling the Go runtime gives the tasks: a goroutine that can step
\* does, a timeout that is waited on fires, and a select whose ctx.Done() case
\* is ready again and again takes it in the end.
FairCancel ==
    /\ \A t \in Throttles :
          /\ WF_vars(RunLoopCheck(t) /\ UNCHANGED othersOfThrottle)
          /\ WF_vars(RunTimeout(t) /\ UNCHANGED othersOfThrottle)
          /\ SF_vars(~exited /\ RunStop(t) /\ UNCHANGED othersOfThrottle)
    /\ SF_vars(PollStop /\ UNCHANGED othersOfPoll)
    /\ SF_vars(DrainStop /\ UNCHANGED othersOfPoll)
    /\ WF_vars(~exited /\ ConsumeLeaf /\ UNCHANGED othersOfConsumer)
    /\ SF_vars(~exited /\ ConsumerStop(ConsumerCtxDone) /\ UNCHANGED othersOfConsumer)

SpecCancel == InitCancel /\ [][NextCancel]_vars /\ FairCancel

\* Every task of the engine has returned.
AllStopped ==
    /\ \A t \in Throttles : tpc[t] = "stopped"
    /\ epc = "stopped"
    /\ ppc = "stopped"
    /\ lcpc = "stopped"

\* C8: once the ctx given to Hammer.Run is cancelled, both throttle loops, the
\* error drain, the consistency poll and the leaf consumer eventually stop
\* (unless the process has been terminated first): none stays in a wait.
C8_CancelStopsAll == ctxDone ~> (exited \/ AllStopped)

\* C8 for the tasks Hammer.Run starts itself, the leaf consumer left out.
C8_CancelStopsRunTasks ==
    ctxDone ~> (exited \/ (/\ \A t \in Throttles : tpc[t] = "stopped"
                            /\ epc = "stopped"
                            /\ ppc = "stopped"))

\* ------------------------------------------ SpecMain: main from its start

InitStartup ==
    /\ ctxDone = FALSE
    /\ lastKey = ""
    /\ InitThrottles([t \in Throttles |-> 0])
    /\ InitRR(0)
    /\ \E flags \in [PoolNames -> 0..1] : InitPools(flags)
    /\ InitConsumer
    /\ InitPoll(0)
    /\ InitGen(0, 0)
    /\ InitAdjust
    /\ \E cfg \in Configs : InitMain(cfg)

\* main's steps, and the steps of the goroutines it has started: a throttle's
\* refill cycle, a tick of the poll, a worker of a grown pool submitting a
\* leaf and reporting an error, the consumer and the error drain.
NextStartup ==
    \/ MainVerifier
    \/ MainURLCheck
    \/ MainURL
    \/ MainRoundRobin
    \/ MainTracker
    \/ MainUpdate
    \/ MainAddURL
    \/ MainNewHammer
    \/ MainRunGrow
    \/ MainRunStart
    \/ \E t \in Throttles :
          ThrottleTask(t) \in started /\ RunTick(t) /\ UNCHANGED othersOfThrottle
    \/ \E t \in Throttles :
          ThrottleTask(t) \in started /\ RunLoopCheck(t) /\ UNCHANGED othersOfThrottle
    \/ "poll" \in started /\ PollTick(NilErr, trackerSize) /\ ticks' <= 1
          /\ UNCHANGED othersOfPoll
    \/ (\E p \in PoolNames : pools[p].running # {})
          /\ SubmitLeaf([Data |-> "x", Index |-> 1]) /\ Len(leafchan') <= 1
          /\ Len(processed) = 0
          /\ UNCHANGED othersOfConsumer
    \/ "leafConsumer" \in started /\ ConsumeLeaf /\ UNCHANGED othersOfConsumer
    \/ (\E p \in PoolNames : pools[p].running # {})
          /\ ReportError /\ errChan' <= 1
          /\ UNCHANGED othersOfPoll
    \/ "errors" \in started /\ DrainError /\ UNCHANGED othersOfPoll

SpecMain == InitStartup /\ [][NextStartup]_vars

\* A run meets none of main's start-up errors: key material is there, at
\* least one --log_url is given, every one parses and has a supported scheme,
\* the tracker is created, the initial log state is fetched and the add URL
\* is built.
ConfigValid(cfg) ==
    /\ cfg.keyOk
    /\ Len(cfg.logURL) > 0
    /\ \A k \in 1..Len(cfg.logURL) : cfg.logURL[k] = "ok"
    /\ cfg.trackerOk
    /\ cfg.updateOk
    /\ cfg.addOk

\* No goroutine has been started, no pool grown, and nothing a worker, a
\* throttle loop, the poll or the consumer does has happened.
NothingStarted ==
    /\ started = {}
    /\ \A p \in PoolNames : pools[p].grows = 0 /\ pools[p].running = {}
    /\ hpc = 1
    /\ \A t \in Throttles : tpc[t] = "select" /\ tokenCount[t] = 0 /\ loopI[t] = 0
    /\ ticks = 0
    /\ leafchan = <<>> /\ processed = <<>>
    /\ errChan = 0

\* C17: in a run that meets a start-up error, main never reaches NewHammer
\* or Hammer.Run and nothing is ever started; a run that has ended in main
\* (klog.Exitf, or the panic of newFetcher) is such a run; and a run that has
\* reached NewHammer met no such error.
C17_ErrorBeforeStart ==
    /\ ~ConfigValid(config) => (NothingStarted /\ mpc \notin {"newhammer", "run", "ui"})
    /\ mpc \in {"exited", "panicked"} => (~ConfigValid(config) /\ NothingStarted)
    /\ ~NothingStarted => mpc \in {"run", "ui"}

\* C17's case: the key, both --log_url flags and the tracker were fine, the
\* fetch of the initial log state failed, and main has ended the process.
C17_Witness ==
    /\ mpc = "exited"
    /\ config.keyOk
    /\ config.logURL = <<"ok", "ok">>
    /\ config.trackerOk
    /\ ~config.updateOk
    /\ fetchers = 2
    /\ numFetchers = 2

====
